---- MODULE Spec2Model ----
(***************************************************************************)
(* A state-machine model of the E1.33 device of tools/e133/E133Device.cpp: *)
(* the endpoint registry observers, the single TCP session with its health *)
(* monitor, and the request / completion path that replies over UDP.       *)
(*                                                                         *)
(* The device is single threaded: every callback runs to completion on the *)
(* select server's thread, so each callback is one action.                 *)
(***************************************************************************)
EXTENDS Naturals, Sequences, FiniteSets

\* ---------------------------------------------------------------- bounds

\* endpoint ids are 0..MaxEndpoint (uint16_t in the code); 0 is the root endpoint
MaxEndpoint == 1
\* number of TCP connections the listening socket accepts in a run
MaxConn == 2
\* number of requests dispatched to endpoints in a run
MaxReq == 2

\* m_health_check_interval(2, 0): the monitor's interval, in ticks of one second
HealthInterval == 2

EndpointIds == 0..MaxEndpoint
Descriptors == 1..MaxConn
RequestIds == 1..MaxReq

\* a NULL pointer (descriptors and requests are numbered from 1)
NULL == 0

\* IPV4Address(): the default-constructed address
DefaultAddr == "0.0.0.0"
\* the peers TCP connections come from
PeerAddrs == {"10.0.0.9"}
\* the requests that arrive: (source address, source port, sequence number)
Headers == {[ip |-> "10.0.0.1", port |-> 5568, sequence |-> 1],
            [ip |-> "10.0.0.2", port |-> 49152, sequence |-> 2]}
Transports == {"TCP", "UDP"}
\* ola::rdm::rdm_response_code: success, broadcast, and one failure code
ResponseCodes == {"RDM_COMPLETED_OK", "RDM_WAS_BROADCAST", "RDM_TIMEOUT"}

\* the endpoint objects: the root endpoint and the registry's endpoint for an id
RootEndpoint == [kind |-> "root", id |-> 0]
NoEndpoint == [kind |-> "none", id |-> 0]
RegistryEndpoint(id) == [kind |-> "registry", id |-> id]

VARIABLES
    \* EndpointManager
    m_endpoint_map,               \* ids registered in the endpoint registry
    \* RDMInflator
    m_rdm_handlers,               \* ids with an RDM handler installed
    \* E133Device
    m_root_endpoint,              \* RootEndpoint or NoEndpoint
    m_tcp_stats,                  \* TRUE iff the TCPConnectionStats pointer is not NULL
    tcp_stats,                    \* the TCPConnectionStats object
    m_health_checked_connection,  \* NULL or the descriptor the monitor wraps
    m_incoming_tcp_transport,     \* NULL or the descriptor the transport reads
    m_tcp_descriptor,             \* NULL or the descriptor of the session
    m_tcp_socket,                 \* "closed" or "listening"
    m_udp_socket,                 \* "closed", "open" or "bound"
    init_result,                  \* "none", "ok" or "failed": what Init() returned
    \* the select server and the sockets
    ss_sockets,                   \* the device's own sockets registered for reading
    ss_read,                      \* accepted descriptors registered for reading
    descriptor_state,             \* per accepted descriptor: "unborn", "open", "closed", "deleted"
    next_conn,                    \* the next descriptor the TCP socket accepts
    \* the health monitor
    hc_elapsed,                   \* ticks since the monitor last saw a heartbeat
    heartbeat_sent,               \* descriptors on which SendHeartbeat() was called
    \* requests
    next_req,                     \* the next request id
    pending,                      \* requests whose completion callback has not run
    callback,                     \* per request: the arguments bound into the completion
    received,                     \* per request: the headers it arrived with, and its target
    send_calls,                   \* per request: SendRDM calls made for it
    replies,                      \* per request: datagrams that went out for it
    udp_out,                      \* the datagram the last step sent on the UDP socket
    \* history
    rejected,                     \* descriptors closed on arrival
    unhealthy_runs,               \* per descriptor: calls of TCPConnectionUnhealthy
    on_close_runs,                \* per descriptor: calls of TCPConnectionClosed
    timer_restarted,              \* the last step restarted a receive timer that had run
    calls,                        \* the calls the last session callback made, in order
    crashed                       \* the process died on a NULL dereference

vars == <<m_endpoint_map, m_rdm_handlers, m_root_endpoint, m_tcp_stats, tcp_stats,
          m_health_checked_connection, m_incoming_tcp_transport, m_tcp_descriptor,
          m_tcp_socket, m_udp_socket, init_result, ss_sockets, ss_read, descriptor_state,
          next_conn, hc_elapsed, heartbeat_sent, next_req, pending, callback, received, send_calls,
          replies, udp_out, rejected, unhealthy_runs, on_close_runs, timer_restarted,
          calls, crashed>>

registry_vars == <<m_endpoint_map, m_rdm_handlers, m_root_endpoint>>
stats_vars == <<m_tcp_stats, tcp_stats>>
session_vars == <<m_health_checked_connection, m_incoming_tcp_transport, m_tcp_descriptor,
                  hc_elapsed, heartbeat_sent>>
socket_vars == <<m_tcp_socket, m_udp_socket, init_result, ss_sockets>>
conn_vars == <<ss_read, descriptor_state, next_conn>>
request_vars == <<next_req, pending, callback, received, send_calls, replies>>
history_vars == <<rejected, unhealthy_runs, on_close_runs>>

\* no datagram, and a datagram as the UDP socket sends it
NoDatagram == [transport |-> "none", dst_ip |-> DefaultAddr, dst_port |-> 0,
               sequence |-> 0, endpoint |-> 0]

NoContext == [src_ip |-> DefaultAddr, src_port |-> 0, sequence_number |-> 0, endpoint_id |-> 0]
NoHeader == [transport |-> "none", src_ip |-> DefaultAddr, src_port |-> 0, sequence |-> 0,
             endpoint_id |-> 0, session |-> NULL, target |-> "none"]

\* a step that sends nothing on the UDP socket and restarts no timer
NoDatagramOut == udp_out' = NoDatagram /\ timer_restarted' = FALSE

\* such a step of a callback that is none of the session's
NoOutput == NoDatagramOut /\ calls' = <<>>

\* ------------------------------------------------------------ construction

\* The state after E133Device::E133Device: nothing bound, no session; the
\* statistics pointer is whatever the caller passed, NULL included.
Init ==
    /\ m_endpoint_map = {}
    /\ m_rdm_handlers = {}
    /\ m_root_endpoint = NoEndpoint
    /\ m_tcp_stats \in BOOLEAN
    /\ tcp_stats = [connection_events |-> 0, unhealthy_events |-> 0, ip_address |-> DefaultAddr]
    /\ m_health_checked_connection = NULL
    /\ m_incoming_tcp_transport = NULL
    /\ m_tcp_descriptor = NULL
    /\ m_tcp_socket = "closed"
    /\ m_udp_socket = "closed"
    /\ init_result = "none"
    /\ ss_sockets = {}
    /\ ss_read = {}
    /\ descriptor_state = [d \in Descriptors |-> "unborn"]
    /\ next_conn = 1
    /\ hc_elapsed = 0
    /\ heartbeat_sent = {}
    /\ next_req = 1
    /\ pending = {}
    /\ callback = [r \in RequestIds |-> NoContext]
    /\ received = [r \in RequestIds |-> NoHeader]
    /\ send_calls = [r \in RequestIds |-> 0]
    /\ replies = [r \in RequestIds |-> 0]
    /\ udp_out = NoDatagram
    /\ rejected = {}
    /\ unhealthy_runs = [d \in Descriptors |-> 0]
    /\ on_close_runs = [d \in Descriptors |-> 0]
    /\ timer_restarted = FALSE
    /\ calls = <<>>
    /\ crashed = FALSE

\* ------------------------------------------------------- RDMInflator

\* RDMInflator::SetRDMHandler: install (or replace) the handler of an id
SetRDMHandler(handlers, endpoint_id) == handlers \cup {endpoint_id}

\* RDMInflator::RemoveRDMHandler: remove the handler of an id, if any
RemoveRDMHandler(handlers, endpoint_id) == handlers \ {endpoint_id}

\* ------------------------------------------------- registry observers

\* E133Device::RegisterEndpoint, the ADD notification
RegisterEndpoint(endpoint_id) ==
    m_rdm_handlers' = SetRDMHandler(m_rdm_handlers, endpoint_id)

\* UnRegisterEndpoint as it would be if it left the handler installed
UnRegisterEndpoint_KeepsHandler(endpoint_id) ==
    m_rdm_handlers' = m_rdm_handlers

\* E133Device::UnRegisterEndpoint, the REMOVE notification
UnRegisterEndpoint(endpoint_id) ==
    m_rdm_handlers' = RemoveRDMHandler(m_rdm_handlers, endpoint_id)

\* EndpointManager::RegisterEndpoint: add the id and notify the observers;
\* an id that is already registered is refused, with no notification.
ManagerRegisterEndpoint(endpoint_id) ==
    /\ ~crashed
    /\ endpoint_id \notin m_endpoint_map
    /\ m_endpoint_map' = m_endpoint_map \cup {endpoint_id}
    /\ RegisterEndpoint(endpoint_id)
    /\ NoOutput
    /\ UNCHANGED <<m_root_endpoint, stats_vars, session_vars, socket_vars, conn_vars,
                   request_vars, history_vars, crashed>>

\* EndpointManager::UnRegisterEndpoint: remove the id and notify the
\* observers; an id that is not registered is a no-op, with no notification.
ManagerUnRegisterEndpoint(endpoint_id) ==
    /\ ~crashed
    /\ endpoint_id \in m_endpoint_map
    /\ m_endpoint_map' = m_endpoint_map \ {endpoint_id}
    /\ UnRegisterEndpoint(endpoint_id)
    /\ NoOutput
    /\ UNCHANGED <<m_root_endpoint, stats_vars, session_vars, socket_vars, conn_vars,
                   request_vars, history_vars, crashed>>

\* E133Device::SetRootEndpoint
SetRootEndpoint(endpoint) ==
    /\ ~crashed
    /\ m_root_endpoint' = endpoint
    /\ m_rdm_handlers' = SetRDMHandler(m_rdm_handlers, 0)
    /\ NoOutput
    /\ UNCHANGED <<m_endpoint_map, stats_vars, session_vars, socket_vars, conn_vars,
                   request_vars, history_vars, crashed>>

\* EndpointManager::GetEndpoint
GetEndpoint(endpoint_id) ==
    IF endpoint_id \in m_endpoint_map THEN RegistryEndpoint(endpoint_id) ELSE NoEndpoint

\* ------------------------------------------------------------------ Init

\* E133Device::Init: listen on TCP, open and bind UDP, register both
DeviceInit(listen_ok, udp_init_ok, bind_ok) ==
    /\ ~crashed
    /\ init_result = "none"
    /\ IF ~listen_ok THEN
           /\ m_tcp_socket' = "closed"
           /\ init_result' = "failed"
           /\ UNCHANGED <<m_udp_socket, ss_sockets>>
       ELSE IF ~udp_init_ok THEN
           /\ m_tcp_socket' = "closed"
           /\ init_result' = "failed"
           /\ UNCHANGED <<m_udp_socket, ss_sockets>>
       ELSE IF ~bind_ok THEN
           /\ m_tcp_socket' = "closed"
           /\ m_udp_socket' = "open"
           /\ init_result' = "failed"
           /\ UNCHANGED ss_sockets
       ELSE
           /\ m_tcp_socket' = "listening"
           /\ m_udp_socket' = "bound"
           /\ ss_sockets' = ss_sockets \cup {"udp", "tcp"}
           /\ init_result' = "ok"
    /\ NoOutput
    /\ UNCHANGED <<registry_vars, stats_vars, session_vars, conn_vars,
                   request_vars, history_vars, crashed>>

\* ---------------------------------------------------------- TCP session

\* the test of line 174 as it would be if it were left out
SessionActive_NotTested == FALSE

\* the test of line 174: a session is active iff the monitor pointer is set
SessionActive == m_health_checked_connection # NULL

\* E133Device::TCPConnectionClosed, entered with the statistics object as
\* `stats` after the calls `before`, and followed by the calls `after` when
\* it returns. The store to m_tcp_stats->ip_address is not guarded: with a
\* NULL pointer it is undefined, and the build either dies there or goes on
\* without the store.
TCPConnectionClosed(stats, before, after) ==
    LET descriptor == m_tcp_descriptor IN
    /\ on_close_runs' = [on_close_runs EXCEPT ![descriptor] = @ + 1]
    /\ \E dies \in IF m_tcp_stats THEN {FALSE} ELSE BOOLEAN :
          /\ crashed' = dies
          /\ IF dies THEN
                 /\ tcp_stats' = stats
                 /\ calls' = before \o <<"TCPConnectionClosed">>
                 /\ UNCHANGED <<m_health_checked_connection, m_incoming_tcp_transport,
                                m_tcp_descriptor, hc_elapsed>>
                 /\ descriptor_state' = [descriptor_state EXCEPT ![descriptor] = "closed"]
             ELSE
                 /\ tcp_stats' = IF m_tcp_stats
                                 THEN [stats EXCEPT !.ip_address = DefaultAddr]
                                 ELSE stats
                 /\ calls' = before \o <<"TCPConnectionClosed",
                                         "delete m_health_checked_connection",
                                         "delete m_incoming_tcp_transport",
                                         "delete m_tcp_descriptor",
                                         "return TCPConnectionClosed">> \o after
                 /\ m_health_checked_connection' = NULL
                 /\ hc_elapsed' = 0
                 /\ m_incoming_tcp_transport' = NULL
                 /\ descriptor_state' = [descriptor_state EXCEPT ![descriptor] = "deleted"]
                 /\ m_tcp_descriptor' = NULL

\* TCPConnectionUnhealthy as it would be if it closed the descriptor and left
\* out the transfer and run of the on-close callback (lines 232-234)
TCPConnectionUnhealthy_NoCloseCallback ==
    /\ unhealthy_runs' = [unhealthy_runs EXCEPT ![m_tcp_descriptor] = @ + 1]
    /\ ss_read' = ss_read \ {m_tcp_descriptor}
    /\ tcp_stats' = IF m_tcp_stats
                    THEN [tcp_stats EXCEPT !.unhealthy_events = @ + 1]
                    ELSE tcp_stats
    /\ descriptor_state' = [descriptor_state EXCEPT ![m_tcp_descriptor] = "closed"]
    /\ calls' = <<"HeartbeatTimeout", "TCPConnectionUnhealthy", "RemoveReadDescriptor",
                  "Close", "return TCPConnectionUnhealthy", "return HeartbeatTimeout">>
    /\ UNCHANGED <<m_health_checked_connection, m_incoming_tcp_transport,
                   m_tcp_descriptor, hc_elapsed, on_close_runs, crashed>>

\* E133Device::TCPConnectionUnhealthy, the unhealthy callback handed to the
\* monitor at line 192 and run by the monitor's timeout: count it, take the
\* descriptor out of the select server, close it, and run its on-close
\* callback
TCPConnectionUnhealthy ==
    /\ unhealthy_runs' = [unhealthy_runs EXCEPT ![m_tcp_descriptor] = @ + 1]
    /\ ss_read' = ss_read \ {m_tcp_descriptor}
    /\ TCPConnectionClosed(IF m_tcp_stats
                           THEN [tcp_stats EXCEPT !.unhealthy_events = @ + 1]
                           ELSE tcp_stats,
                           <<"HeartbeatTimeout", "TCPConnectionUnhealthy",
                             "RemoveReadDescriptor", "Close", "TransferOnClose">>,
                           <<"return TCPConnectionUnhealthy", "return HeartbeatTimeout">>)

\* the branch of lines 174-179: a session is active, the newcomer is closed
Rejected(descriptor) ==
    /\ descriptor_state' = [descriptor_state EXCEPT ![descriptor] = "deleted"]
    /\ rejected' = rejected \cup {descriptor}
    /\ calls' = <<"Close", "delete descriptor">>
    /\ UNCHANGED <<session_vars, ss_read>>

\* the calls of lines 186-195: the on-close hook, the monitor, its Setup
SetupCalls == <<"SetOnClose", "new E133HealthCheckedConnection", "Setup">>

\* SetupFailed as it would be if it left m_health_checked_connection pointing
\* at the monitor it deleted (line 200 left out)
SetupFailed_KeepsMonitor(descriptor) ==
    /\ m_health_checked_connection' = descriptor
    /\ descriptor_state' = [descriptor_state EXCEPT ![descriptor] = "deleted"]
    /\ calls' = SetupCalls \o <<"delete m_health_checked_connection", "Close",
                                "delete descriptor">>
    /\ UNCHANGED <<m_incoming_tcp_transport, m_tcp_descriptor, hc_elapsed,
                   heartbeat_sent, ss_read>>

\* the branch of lines 196-204: Setup of the monitor failed
SetupFailed(descriptor) ==
    /\ m_health_checked_connection' = NULL
    /\ descriptor_state' = [descriptor_state EXCEPT ![descriptor] = "deleted"]
    /\ calls' = SetupCalls \o <<"delete m_health_checked_connection", "Close",
                                "delete descriptor">>
    /\ UNCHANGED <<m_incoming_tcp_transport, m_tcp_descriptor, hc_elapsed,
                   heartbeat_sent, ss_read>>

\* SessionStartCalls as it would be if the descriptor were given its data
\* callback and added to the select server before the heartbeat is sent
SessionStartCalls_ReadsFirst ==
    <<"new IncomingTCPTransport", "SetOnData", "AddReadDescriptor", "SendHeartbeat">>

\* the calls of lines 206-217, in the order of the code
SessionStartCalls ==
    <<"new IncomingTCPTransport", "SendHeartbeat", "SetOnData", "AddReadDescriptor">>

\* SessionStart as it would be if m_tcp_descriptor were not assigned (line 212
\* left out)
SessionStart_NoHandle(descriptor) ==
    /\ m_health_checked_connection' = descriptor
    /\ hc_elapsed' = 0
    /\ m_incoming_tcp_transport' = descriptor
    /\ heartbeat_sent' = heartbeat_sent \cup {descriptor}
    /\ m_tcp_descriptor' = m_tcp_descriptor
    /\ descriptor_state' = [descriptor_state EXCEPT ![descriptor] = "open"]
    /\ ss_read' = ss_read \cup {descriptor}
    /\ calls' = SetupCalls \o SessionStartCalls

\* lines 189-195 and 206-217: the monitor is set up, the session starts
SessionStart(descriptor) ==
    /\ m_health_checked_connection' = descriptor
    /\ hc_elapsed' = 0
    /\ m_incoming_tcp_transport' = descriptor
    /\ heartbeat_sent' = heartbeat_sent \cup {descriptor}
    /\ m_tcp_descriptor' = descriptor
    /\ descriptor_state' = [descriptor_state EXCEPT ![descriptor] = "open"]
    /\ ss_read' = ss_read \cup {descriptor}
    /\ calls' = SetupCalls \o SessionStartCalls

\* NewTCPConnection as it would be if it updated the statistics (lines
\* 181-184) before it tested for an active session (lines 174-179)
NewTCPConnection_CountsFirst(peer_known, peer_ip, setup_ok) ==
    LET descriptor == next_conn
        ip_address == IF peer_known THEN peer_ip ELSE DefaultAddr
    IN
    /\ ~crashed
    /\ "tcp" \in ss_sockets
    /\ next_conn <= MaxConn
    /\ next_conn' = next_conn + 1
    /\ tcp_stats' = IF m_tcp_stats
                    THEN [tcp_stats EXCEPT !.connection_events = @ + 1,
                                           !.ip_address = ip_address]
                    ELSE tcp_stats
    /\ IF SessionActive THEN
           Rejected(descriptor)
       ELSE
           /\ UNCHANGED rejected
           /\ IF ~setup_ok THEN SetupFailed(descriptor) ELSE SessionStart(descriptor)
    /\ NoDatagramOut
    /\ UNCHANGED <<registry_vars, m_tcp_stats, socket_vars, request_vars,
                   unhealthy_runs, on_close_runs, crashed>>

\* E133Device::NewTCPConnection, the accept callback of the listening socket
NewTCPConnection(peer_known, peer_ip, setup_ok) ==
    LET descriptor == next_conn
        ip_address == IF peer_known THEN peer_ip ELSE DefaultAddr
    IN
    /\ ~crashed
    /\ "tcp" \in ss_sockets
    /\ next_conn <= MaxConn
    /\ next_conn' = next_conn + 1
    /\ IF SessionActive THEN
           /\ Rejected(descriptor)
           /\ UNCHANGED tcp_stats
       ELSE
           /\ tcp_stats' = IF m_tcp_stats
                           THEN [tcp_stats EXCEPT !.connection_events = @ + 1,
                                                  !.ip_address = ip_address]
                           ELSE tcp_stats
           /\ UNCHANGED rejected
           /\ IF ~setup_ok THEN SetupFailed(descriptor) ELSE SessionStart(descriptor)
    /\ NoDatagramOut
    /\ UNCHANGED <<registry_vars, m_tcp_stats, socket_vars, request_vars,
                   unhealthy_runs, on_close_runs, crashed>>

\* The peer closes the connection of the session: the select server drops the
\* descriptor and runs its on-close callback, TCPConnectionClosed.
PeerClose ==
    /\ ~crashed
    /\ m_tcp_descriptor # NULL
    /\ m_tcp_descriptor \in ss_read
    /\ ss_read' = ss_read \ {m_tcp_descriptor}
    /\ TCPConnectionClosed(tcp_stats, <<>>, <<>>)
    /\ NoDatagramOut
    /\ UNCHANGED <<registry_vars, m_tcp_stats, heartbeat_sent, socket_vars,
                   next_conn, request_vars, rejected, unhealthy_runs>>

\* ------------------------------------------------------- health monitor

\* one second passes with nothing received on the session
Tick ==
    /\ ~crashed
    /\ SessionActive
    /\ hc_elapsed < HealthInterval
    /\ hc_elapsed' = hc_elapsed + 1
    /\ NoOutput
    /\ UNCHANGED <<registry_vars, stats_vars, m_health_checked_connection,
                   m_incoming_tcp_transport, m_tcp_descriptor, heartbeat_sent, socket_vars,
                   conn_vars, request_vars, history_vars, crashed>>

\* the monitor's receive timer expires after a full interval without a
\* heartbeat and runs the unhealthy callback, TCPConnectionUnhealthy
HeartbeatTimeout ==
    /\ ~crashed
    /\ SessionActive
    /\ hc_elapsed = HealthInterval
    /\ TCPConnectionUnhealthy
    /\ NoDatagramOut
    /\ UNCHANGED <<registry_vars, m_tcp_stats, heartbeat_sent, socket_vars,
                   next_conn, request_vars, rejected>>

\* HealthCheckedConnection::HeartbeatReceived: restart the receive timer
HeartbeatReceived(elapsed) == 0

\* ------------------------------------------------------------- requests

\* E133DataReceived as it would be without the test of the transport
E133DataReceived_AnyTransport(transport) ==
    IF m_health_checked_connection # NULL
    THEN HeartbeatReceived(hc_elapsed)
    ELSE hc_elapsed

\* E133Device::E133DataReceived: data that came over TCP is a heartbeat for
\* the monitor; the result is the monitor's timer
E133DataReceived(transport) ==
    IF transport = "TCP" /\ m_health_checked_connection # NULL
    THEN HeartbeatReceived(hc_elapsed)
    ELSE hc_elapsed

\* LookupEndpoint as it would be if id 0 went through the registry like any
\* other id
LookupEndpoint_ThroughRegistry(endpoint_id) == GetEndpoint(endpoint_id)

\* the endpoint a request is for (lines 301-305): id 0 is the root endpoint,
\* every other id is looked up in the registry
LookupEndpoint(endpoint_id) ==
    IF endpoint_id # 0 THEN GetEndpoint(endpoint_id) ELSE m_root_endpoint

\* BindContext as it would be with the sequence number and the endpoint id
\* bound in each other's place (both are integers)
BindContext_SwapsSequence(header, endpoint_id) ==
    [src_ip |-> header.ip, src_port |-> header.port,
     sequence_number |-> endpoint_id, endpoint_id |-> header.sequence]

\* the arguments EndpointRequest binds into the completion callback
BindContext(header, endpoint_id) ==
    [src_ip |-> header.ip, src_port |-> header.port,
     sequence_number |-> header.sequence, endpoint_id |-> endpoint_id]

\* E133Device::EndpointRequest, the RDM handler of endpoint_id: find the
\* endpoint, unpack the request, and hand it to the endpoint with a
\* completion callback. `received` notes the endpoint that got the request.
EndpointRequest(endpoint_id, transport, header, parse_ok) ==
    LET endpoint == LookupEndpoint(endpoint_id) IN
    IF endpoint = NoEndpoint \/ ~parse_ok THEN
        UNCHANGED <<next_req, pending, callback, received>>
    ELSE
        /\ next_req <= MaxReq
        /\ next_req' = next_req + 1
        /\ pending' = pending \cup {next_req}
        /\ callback' = [callback EXCEPT ![next_req] = BindContext(header, endpoint_id)]
        /\ received' = [received EXCEPT ![next_req] =
                          [transport |-> transport, src_ip |-> header.ip,
                           src_port |-> header.port, sequence |-> header.sequence,
                           endpoint_id |-> endpoint_id,
                           session |-> IF transport = "TCP"
                                       THEN m_incoming_tcp_transport ELSE NULL,
                           target |-> endpoint.kind]]

\* RDMInflator::HandlePDUData: an RDM PDU for endpoint_id came out of the
\* E1.33 layer, over UDP or over the TCP connection of the session. The
\* inflator reports the data, then runs the handler of the endpoint, if any.
RDMData(transport, header, endpoint_id, parse_ok) ==
    /\ ~crashed
    /\ IF transport = "UDP"
       THEN "udp" \in ss_sockets
       ELSE m_incoming_tcp_transport # NULL /\ m_incoming_tcp_transport \in ss_read
    /\ hc_elapsed' = E133DataReceived(transport)
    /\ timer_restarted' = (hc_elapsed' < hc_elapsed)
    /\ IF endpoint_id \in m_rdm_handlers
       THEN EndpointRequest(endpoint_id, transport, header, parse_ok)
       ELSE UNCHANGED <<next_req, pending, callback, received>>
    /\ udp_out' = NoDatagram
    /\ calls' = <<>>
    /\ UNCHANGED <<registry_vars, stats_vars, m_health_checked_connection,
                   m_incoming_tcp_transport, m_tcp_descriptor, heartbeat_sent, socket_vars,
                   conn_vars, send_calls, replies, rejected, unhealthy_runs, on_close_runs,
                   crashed>>

\* the test of line 352 as it would be if it let the broadcast code through
Dropped_OnlyFailures(response_code) ==
    response_code \notin {"RDM_COMPLETED_OK", "RDM_WAS_BROADCAST"}

\* the test of line 352: every response code but success drops the request
Dropped(response_code) == response_code # "RDM_COMPLETED_OK"

\* ReplyDatagram as it would be if the reply went to the E1.33 port of the
\* sender instead of the port the request came from
ReplyDatagram_ToE133Port(context) ==
    [transport |-> "UDP", dst_ip |-> context.src_ip, dst_port |-> 5568,
     sequence |-> context.sequence_number, endpoint |-> context.endpoint_id]

\* the datagram E133Sender::SendRDM hands to the OutgoingUDPTransport made
\* for (src_ip, src_port), under the E133Header of lines 362-367
ReplyDatagram(context) ==
    [transport |-> "UDP", dst_ip |-> context.src_ip, dst_port |-> context.src_port,
     sequence |-> context.sequence_number, endpoint |-> context.endpoint_id]

\* E133Device::EndpointRequestComplete, the completion callback of `request`,
\* run by the endpoint with its response code. The callback is single use:
\* it is deleted, with the arguments bound into it, once it has run.
\* SendRDM reports whether the datagram went out (send_ok).
EndpointRequestComplete(request, response_code, send_ok) ==
    /\ ~crashed
    /\ request \in pending
    /\ UNCHANGED <<registry_vars, stats_vars, session_vars, socket_vars, conn_vars,
                   next_req, history_vars, crashed>>
    /\ pending' = pending \ {request}
    /\ callback' = [callback EXCEPT ![request] = NoContext]
    /\ received' = [received EXCEPT ![request] = NoHeader]
    /\ IF Dropped(response_code) THEN
           /\ UNCHANGED <<send_calls, replies>>
           /\ udp_out' = NoDatagram
       ELSE
           /\ send_calls' = [send_calls EXCEPT ![request] = @ + 1]
           /\ replies' = [replies EXCEPT ![request] = IF send_ok THEN @ + 1 ELSE @]
           /\ udp_out' = IF send_ok THEN ReplyDatagram(callback[request]) ELSE NoDatagram
    /\ timer_restarted' = FALSE
    /\ calls' = <<>>

\* ------------------------------------------------------- specification

Next ==
    \/ \E id \in EndpointIds : ManagerRegisterEndpoint(id)
    \/ \E id \in EndpointIds : ManagerUnRegisterEndpoint(id)
    \/ SetRootEndpoint(RootEndpoint)
    \/ \E listen_ok, udp_init_ok, bind_ok \in BOOLEAN :
          DeviceInit(listen_ok, udp_init_ok, bind_ok)
    \/ \E peer_known, setup_ok \in BOOLEAN : \E peer_ip \in PeerAddrs :
          NewTCPConnection(peer_known, peer_ip, setup_ok)
    \/ PeerClose
    \/ Tick
    \/ HeartbeatTimeout
    \/ \E transport \in Transports, header \in Headers,
          endpoint_id \in EndpointIds, parse_ok \in BOOLEAN :
          RDMData(transport, header, endpoint_id, parse_ok)
    \/ \E request \in RequestIds, response_code \in ResponseCodes, send_ok \in BOOLEAN :
          EndpointRequestComplete(request, response_code, send_ok)

Spec == Init /\ [][Next]_vars

\* The select server runs its timers: time passes while a session waits for
\* a heartbeat, and the monitor's timeout runs once the interval is over.
LiveSpec == Spec /\ WF_vars(Tick) /\ WF_vars(HeartbeatTimeout)

\* ----------------------------------------------------------------- claims

\* C1, as stated: the ids with an RDM handler installed are exactly the ids
\* registered in the endpoint registry.
C1_HandlersEqualRegistry == m_rdm_handlers = m_endpoint_map

\* C1, amended: every registered id has a handler, and every id with a handler
\* is registered or is id 0, whose handler SetRootEndpoint installs without a
\* registration once the root endpoint is bound.
C1_HandlersMatchRegistryButRoot ==
    /\ m_endpoint_map \subseteq m_rdm_handlers
    /\ m_rdm_handlers \subseteq m_endpoint_map \cup {0}
    /\ (0 \in m_rdm_handlers /\ 0 \notin m_endpoint_map) => m_root_endpoint # NoEndpoint

\* C1 witness: an endpoint is registered and has its handler, and the root
\* endpoint is bound, with its handler, with no registration of id 0.
C1_Witness ==
    /\ m_root_endpoint = RootEndpoint
    /\ 0 \in m_rdm_handlers /\ 0 \notin m_endpoint_map
    /\ MaxEndpoint \in m_endpoint_map /\ MaxEndpoint \in m_rdm_handlers

\* the accepted descriptors that are open
OpenDescriptors == {d \in Descriptors : descriptor_state[d] = "open"}

\* C2: at most one TCP session is active at any time, and a connection that
\* arrives while a session is active is closed at once and never becomes the
\* session: the session stays the older connection's.
C2_SingleSession ==
    /\ [](/\ Cardinality(OpenDescriptors) <= 1
          /\ \A d \in OpenDescriptors : m_health_checked_connection = d
          /\ \A d \in rejected :
                /\ descriptor_state[d] = "deleted"
                /\ d \notin {m_health_checked_connection, m_incoming_tcp_transport,
                              m_tcp_descriptor}
                /\ d \notin ss_read /\ d \notin heartbeat_sent
                /\ on_close_runs[d] = 0)
    /\ [][(m_health_checked_connection # NULL /\ next_conn' # next_conn)
            => /\ next_conn \in rejected'
               /\ descriptor_state'[next_conn] = "deleted"
               /\ m_health_checked_connection' = m_health_checked_connection]_vars

\* C2 witness: a second connection was rejected and the first is the session
C2_Witness ==
    /\ 2 \in rejected
    /\ m_tcp_descriptor = 1 /\ m_health_checked_connection = 1
    /\ descriptor_state[1] = "open"

\* C3: a NewTCPConnection that arrives while a session is active changes
\* nothing of that session: the statistics (connection attempts, unhealthy
\* count, peer address), the monitor and its timer, the TCP transport, the
\* connection handle and its descriptor all keep their values.
C3_RejectionLeavesSession ==
    [][(m_health_checked_connection # NULL /\ next_conn' # next_conn)
        => /\ UNCHANGED <<tcp_stats, m_health_checked_connection, hc_elapsed,
                          m_incoming_tcp_transport, m_tcp_descriptor, heartbeat_sent,
                          ss_read>>
           /\ descriptor_state'[m_tcp_descriptor] = descriptor_state[m_tcp_descriptor]]_vars

\* C3 witness: with statistics, a second connection was rejected and the
\* statistics still show the one attempt and the peer of the first
C3_Witness ==
    /\ m_tcp_stats
    /\ 2 \in rejected
    /\ m_tcp_descriptor = 1
    /\ tcp_stats.connection_events = 1
    /\ tcp_stats.ip_address \in PeerAddrs

\* the datagram that answers a request, from the headers it arrived with
ExpectedReply(header) ==
    [transport |-> "UDP", dst_ip |-> header.src_ip, dst_port |-> header.src_port,
     sequence |-> header.sequence, endpoint |-> header.endpoint_id]

\* C4, as stated: every completion with the success code produces exactly
\* one UDP reply, to the source address and port of its request.
C4_ExactlyOneReply ==
    [][\A r \in RequestIds, s \in BOOLEAN :
          EndpointRequestComplete(r, "RDM_COMPLETED_OK", s)
          => /\ replies'[r] = 1
             /\ udp_out'.dst_ip = received[r].src_ip
             /\ udp_out'.dst_port = received[r].src_port]_vars

\* C4, amended: every completion with the success code makes exactly one
\* SendRDM call, over UDP to the source address and port of its request,
\* whichever transport the request came over; one reply goes out when the
\* send succeeds and none when it fails, and never more than one.
C4_ExactlyOneSend ==
    /\ [](\A r \in RequestIds : replies[r] <= send_calls[r] /\ send_calls[r] <= 1)
    /\ [][\A r \in RequestIds, s \in BOOLEAN :
             EndpointRequestComplete(r, "RDM_COMPLETED_OK", s)
             => /\ send_calls[r] = 0 /\ send_calls'[r] = 1
                /\ replies'[r] = IF s THEN 1 ELSE 0
                /\ s => /\ udp_out'.transport = "UDP"
                         /\ udp_out'.dst_ip = received[r].src_ip
                         /\ udp_out'.dst_port = received[r].src_port
                /\ ~s => udp_out' = NoDatagram]_vars

\* C4 witness: a request completed with success and its one reply went out
C4_Witness ==
    /\ udp_out # NoDatagram
    /\ \E r \in RequestIds : r \notin pending /\ send_calls[r] = 1 /\ replies[r] = 1

\* C5: with several requests pending and completions in any order, a reply
\* carries the sequence number and the endpoint id of the request whose
\* completion produced it; the context of a pending request is the one bound
\* when it was dispatched, and a completion consumes it for good.
C5_Correlation ==
    /\ [](\A r \in RequestIds :
            IF r \in pending
            THEN /\ callback[r].sequence_number = received[r].sequence
                 /\ callback[r].endpoint_id = received[r].endpoint_id
                 /\ send_calls[r] = 0
            ELSE callback[r] = NoContext)
    /\ [][\A r \in RequestIds :
             EndpointRequestComplete(r, "RDM_COMPLETED_OK", TRUE)
             => /\ udp_out'.sequence = received[r].sequence
                /\ udp_out'.endpoint = received[r].endpoint_id]_vars
    /\ [][\A r \in RequestIds :
             (r < next_req /\ r \notin pending)
             => (r \notin pending' /\ send_calls'[r] = send_calls[r])]_vars

\* C5 witness: two requests with different sequence numbers were pending at
\* once, and the later one completed first, its reply carrying its own number
C5_Witness ==
    /\ next_req = 3
    /\ pending = {1}
    /\ replies[2] = 1
    /\ udp_out # NoDatagram
    /\ udp_out.sequence # received[1].sequence
    /\ udp_out.endpoint # received[1].endpoint_id

\* the endpoint a decoded request for endpoint_id is handed to: the inflator
\* runs the handler of the id, if one is installed, and EndpointRequest looks
\* the endpoint up
RoutedTo(endpoint_id) ==
    IF endpoint_id \in m_rdm_handlers THEN LookupEndpoint(endpoint_id) ELSE NoEndpoint

\* C6: once the root endpoint is bound, a decoded request for endpoint id 0
\* is handed to the root endpoint, whatever the registry did since.
C6_RootAlwaysRouted ==
    m_root_endpoint = RootEndpoint => RoutedTo(0) = RootEndpoint

\* the sum of a counter over the descriptors
RECURSIVE SumUpTo(_, _)
SumUpTo(f, n) == IF n = 0 THEN 0 ELSE f[n] + SumUpTo(f, n - 1)

\* C7: the unhealthy callback runs only after a full interval without a
\* heartbeat, at most once for a session, and each run counts one unhealthy
\* event (with statistics), takes the connection out of the select server,
\* closes it and runs TCPConnectionClosed exactly once for that session; a
\* session whose interval ran out can go nowhere but into that transition.
C7_OneUnhealthyOneClose ==
    /\ [](\A d \in Descriptors :
            /\ unhealthy_runs[d] <= 1
            /\ on_close_runs[d] <= 1
            /\ unhealthy_runs[d] = 1
                  => /\ on_close_runs[d] = 1
                     /\ d \notin ss_read
                     /\ descriptor_state[d] \in {"closed", "deleted"})
    /\ [](m_tcp_stats => tcp_stats.unhealthy_events = SumUpTo(unhealthy_runs, MaxConn))
    /\ []((m_health_checked_connection # NULL /\ hc_elapsed = HealthInterval /\ ~crashed)
            => (ENABLED HeartbeatTimeout /\ ~ENABLED Tick))
    /\ [][unhealthy_runs' # unhealthy_runs
            => /\ hc_elapsed = HealthInterval
               /\ unhealthy_runs'[m_tcp_descriptor] = 1
               /\ on_close_runs[m_tcp_descriptor] = 0]_vars
    /\ [][(hc_elapsed' < hc_elapsed /\ m_health_checked_connection' # NULL)
            => (hc_elapsed' = 0 /\ UNCHANGED <<unhealthy_runs, on_close_runs, tcp_stats>>)]_vars

\* C7 witness: with statistics, a session sat through its interval and was
\* declared unhealthy: one unhealthy event, one TCPConnectionClosed, no session
C7_Witness ==
    /\ m_tcp_stats
    /\ unhealthy_runs[1] = 1 /\ on_close_runs[1] = 1
    /\ tcp_stats.unhealthy_events = 1
    /\ descriptor_state[1] = "deleted"
    /\ m_health_checked_connection = NULL

\* C8: data that arrives over the TCP connection of the session is reported
\* to the monitor as a heartbeat and restarts its timer; data that arrives
\* over UDP never touches the timer, with or without a session. Each step
\* either leaves the timer as data over t must, or is no arrival of data
\* over t.
C8_OnlyTCPDataIsHeartbeat ==
    [][\A t \in Transports :
          \/ IF t = "TCP"
             THEN hc_elapsed' = 0 /\ timer_restarted' = (hc_elapsed > 0)
             ELSE hc_elapsed' = hc_elapsed /\ timer_restarted' = FALSE
          \/ ~\E h \in Headers, e \in EndpointIds, p \in BOOLEAN :
                 RDMData(t, h, e, p)]_vars

\* C8 witness: TCP data restarted a timer that had run, while a request that
\* came over UDP during the session is pending
C8_Witness ==
    /\ timer_restarted
    /\ hc_elapsed = 0
    /\ m_health_checked_connection # NULL
    /\ \E r \in pending : received[r].transport = "UDP"

\* C9: a completion with any response code other than success sends nothing
\* on any transport and changes no state of the device.
C9_FailuresSendNothing ==
    [][\A r \in RequestIds, c \in ResponseCodes \ {"RDM_COMPLETED_OK"}, s \in BOOLEAN :
          EndpointRequestComplete(r, c, s)
          => /\ udp_out' = NoDatagram
             /\ UNCHANGED <<send_calls, replies, registry_vars, stats_vars, session_vars,
                            socket_vars, conn_vars, history_vars, crashed>>]_vars

\* C9 witness: both requests completed and neither led to a SendRDM call
C9_Witness ==
    /\ next_req = 3 /\ pending = {}
    /\ send_calls[1] = 0 /\ send_calls[2] = 0
    /\ udp_out = NoDatagram

\* C10: a request that came over TCP and is still pending when its session
\* is torn down can still complete, and its completion still sends the reply.
C10_CompletionSurvivesTeardown ==
    \A r \in pending :
        (received[r].transport = "TCP" /\ on_close_runs[received[r].session] > 0)
        => ENABLED (/\ EndpointRequestComplete(r, "RDM_COMPLETED_OK", TRUE)
                    /\ udp_out' = ExpectedReply(received[r]))

\* C11: when Init fails, at whichever step, it leaves nothing open: both
\* sockets are closed and neither is registered with the select server.
C11_InitFailureLeavesNothingOpen ==
    init_result = "failed"
    => /\ m_tcp_socket = "closed"
       /\ m_udp_socket = "closed"
       /\ ss_sockets = {}

\* the endpoint of a request cannot be found: a non-zero id the registry does
\* not resolve, or id 0 with no root endpoint bound
NotFound(endpoint_id) ==
    IF endpoint_id = 0
    THEN m_root_endpoint = NoEndpoint
    ELSE endpoint_id \notin m_endpoint_map

\* the device's state but for the monitor's receive timer
device_vars == <<registry_vars, stats_vars, m_health_checked_connection,
                 m_incoming_tcp_transport, m_tcp_descriptor, heartbeat_sent,
                 socket_vars, conn_vars, request_vars, history_vars, crashed>>

\* C12, as stated: a request whose endpoint cannot be found, or whose payload
\* does not parse, is dropped with no dispatch, no reply and no change of
\* state at all. Each step either changes nothing or is no such arrival.
C12_DropChangesNothing ==
    [][\/ (udp_out' = NoDatagram /\ UNCHANGED <<device_vars, hc_elapsed>>)
       \/ ~\E t \in Transports, h \in Headers, e \in EndpointIds, p \in BOOLEAN :
              (NotFound(e) \/ ~p) /\ RDMData(t, h, e, p)]_vars

\* C12, amended: such a request is dropped with no dispatch and no reply, and
\* nothing of the device changes but the monitor's receive timer, which the
\* arrival restarts when it came over the TCP connection of the session; the
\* device is alive afterwards, the guards of every callback as they were.
C12_DropChangesOnlyTimer ==
    [][\A t \in Transports :
          \/ /\ udp_out' = NoDatagram
             /\ UNCHANGED device_vars
             /\ ~crashed'
             /\ hc_elapsed' = IF t = "TCP" THEN 0 ELSE hc_elapsed
          \/ ~\E h \in Headers, e \in EndpointIds, p \in BOOLEAN :
                 (NotFound(e) \/ ~p) /\ RDMData(t, h, e, p)]_vars

\* C12 witness: handler 0 is installed by the registry with no root endpoint
\* bound and id 1 is not registered, so every request is one that is dropped;
\* one arrived over TCP in a session whose timer had run, and no request was
\* ever dispatched
C12_Witness ==
    /\ timer_restarted
    /\ m_health_checked_connection # NULL
    /\ m_rdm_handlers = {0} /\ m_root_endpoint = NoEndpoint
    /\ next_req = 1 /\ pending = {}

\* C13: when the monitor's Setup fails for a connection that arrives with no
\* session active, the connection is closed and freed and no session is
\* recorded: the monitor, the TCP transport and the connection handle are all
\* absent afterwards, the select server was given nothing to read, and the
\* test for an active session fails for the next connection.
C13_SetupFailureRecordsNoSession ==
    [][\A k \in BOOLEAN, ip \in PeerAddrs :
          (~SessionActive /\ NewTCPConnection(k, ip, FALSE))
          => /\ descriptor_state'[next_conn] = "deleted"
             /\ m_health_checked_connection' = NULL
             /\ m_incoming_tcp_transport' = NULL
             /\ m_tcp_descriptor' = NULL
             /\ ss_read' = ss_read /\ ss_read' = {}
             /\ UNCHANGED <<ss_sockets, rejected, heartbeat_sent, on_close_runs>>]_vars

\* C13 witness: Setup failed for the first connection, which was neither
\* rejected nor a session that was closed, and the second connection was
\* accepted as the session
C13_Witness ==
    /\ descriptor_state[1] = "deleted"
    /\ 1 \notin rejected /\ on_close_runs[1] = 0 /\ 1 \notin heartbeat_sent
    /\ m_health_checked_connection = 2 /\ m_tcp_descriptor = 2
    /\ 2 \in ss_read

\* C14: TCPConnectionClosed is the one teardown path, for a close by the peer
\* and for a close by the monitor: a session ends only in a step that runs
\* it, and after it has run the monitor, the TCP transport and the connection
\* handle are released, the peer address in the statistics is reset, and the
\* device is ready to accept the next connection as a new session.
C14_SingleTeardownPath ==
    /\ [][(m_health_checked_connection # NULL /\ m_health_checked_connection' = NULL)
            => on_close_runs' # on_close_runs]_vars
    /\ [][on_close_runs' # on_close_runs
            => /\ m_health_checked_connection' = NULL
               /\ m_incoming_tcp_transport' = NULL
               /\ m_tcp_descriptor' = NULL
               /\ descriptor_state'[m_tcp_descriptor] = "deleted"
               /\ m_tcp_stats => tcp_stats'.ip_address = DefaultAddr
               /\ ~crashed']_vars

\* C15: an accepted connection has its heartbeat sent before it is read: in
\* the accept callback SendHeartbeat comes before SetOnData and before
\* AddReadDescriptor, so every descriptor the select server reads, the
\* session, and every request that came over TCP belong to a connection
\* whose first heartbeat has gone out.
C15_HeartbeatBeforeRead ==
    /\ \A i \in DOMAIN calls :
          calls[i] \in {"SetOnData", "AddReadDescriptor"}
          => \E j \in 1..(i - 1) : calls[j] = "SendHeartbeat"
    /\ ss_read \subseteq heartbeat_sent
    /\ m_health_checked_connection # NULL => m_health_checked_connection \in heartbeat_sent
    /\ \A r \in pending :
          received[r].transport = "TCP" => received[r].session \in heartbeat_sent

\* C15 witness: the accept callback has just run for a connection that is now
\* the session, read by the select server, its heartbeat sent
C15_Witness ==
    /\ calls = SetupCalls \o SessionStartCalls
    /\ m_tcp_descriptor # NULL
    /\ m_tcp_descriptor \in ss_read
    /\ m_tcp_descriptor \in heartbeat_sent

\* C16: with the timers running, every session either gets TCP traffic that
\* restarts the monitor's timer or is in the end declared unhealthy or closed
\* and torn down: the device comes back to the state with no session.
C16_SilentSessionIsTornDown ==
    \A d \in Descriptors :
        (m_health_checked_connection = d)
            ~> (m_health_checked_connection = NULL \/ timer_restarted)

\* C17: a device constructed without a statistics object runs every session
\* callback (NewTCPConnection, TCPConnectionUnhealthy, TCPConnectionClosed)
\* to its end without touching the statistics: no callback dereferences the
\* NULL pointer, and the statistics object nobody handed over is never written.
C17_NullStatsNeverAccessed ==
    ~m_tcp_stats
    => /\ ~crashed
       /\ tcp_stats = [connection_events |-> 0, unhealthy_events |-> 0,
                       ip_address |-> DefaultAddr]

\* C18: between any two callbacks the three components of the session are
\* all present or all absent: the monitor is set iff the TCP transport is set
\* iff the connection handle is set, and when set all three are of the same
\* connection; the handle is set whenever the unhealthy callback can run.
C18_SessionComponentsTogether ==
    /\ (m_health_checked_connection # NULL) <=> (m_incoming_tcp_transport # NULL)
    /\ (m_incoming_tcp_transport # NULL) <=> (m_tcp_descriptor # NULL)
    /\ m_incoming_tcp_transport = m_health_checked_connection
    /\ m_tcp_descriptor = m_health_checked_connection
    /\ ENABLED HeartbeatTimeout => m_tcp_descriptor # NULL

\* C18 witness: a first session was torn down by the monitor, a second
\* connection was accepted after it, and all three components are set, of
\* that second connection, at the moment its unhealthy callback can run
C18_Witness ==
    /\ unhealthy_runs[1] = 1
    /\ m_health_checked_connection = 2
    /\ m_incoming_tcp_transport = 2
    /\ m_tcp_descriptor = 2
    /\ ENABLED HeartbeatTimeout

\* C19: whenever no session is active, the peer address in the statistics is
\* the default address: a peer address is recorded only while its session
\* lasts.
C19_PeerAddressOnlyInSession ==
    (m_tcp_stats /\ m_health_checked_connection = NULL)
    => tcp_stats.ip_address = DefaultAddr

\* the monitor's timeout callback is running at call i of the last step
InMonitorCallback(i) ==
    \E j \in 1..i :
        /\ calls[j] = "HeartbeatTimeout"
        /\ \A k \in j..i : calls[k] # "return HeartbeatTimeout"

\* C20: the monitor is never deleted while one of its own callbacks runs: no
\* delete of m_health_checked_connection comes between the entry of the
\* monitor's timeout callback and its return.
C20_MonitorOutlivesItsCallback ==
    \A i \in DOMAIN calls :
        calls[i] = "delete m_health_checked_connection" => ~InMonitorCallback(i)

====
